---------------------------- MODULE Spec2Model ----------------------------
(***************************************************************************)
(* Model of the PDF-to-Word conversion pipeline of pdf_to_word_converter.py *)
(* (class PDFToWordConverter).  A text is a sequence of characters, a       *)
(* character a string of length one; Chars turns a literal into a text.     *)
(* The alphabet is ASCII: letters, digits, the punctuation the regular      *)
(* expressions name, space, tab and newline.                                *)
(***************************************************************************)
EXTENDS Integers, Sequences, FiniteSets, TLC

\* ------------------------------------------------------------------------
\* Characters and the Python str methods the code calls
\* ------------------------------------------------------------------------

Chars(str) == [k \in 1..Len(str) |-> SubSeq(str, k, k)]

Lowers == Chars("abcdefghijklmnopqrstuvwxyz")
Uppers == Chars("ABCDEFGHIJKLMNOPQRSTUVWXYZ")
Digits == Chars("0123456789")

CharsOf(s) == { s[k] : k \in 1..Len(s) }

LowerSet == CharsOf(Lowers)
UpperSet == CharsOf(Uppers)
DigitSet == CharsOf(Digits)
AlphaSet == LowerSet \cup UpperSet
\* the characters str.strip() removes, within the alphabet
SpaceSet == {" ", "\t", "\n", "\r"}

Max(a, b) == IF a >= b THEN a ELSE b

\* str.lower() on one character
LowerOf == [c \in UpperSet |-> Lowers[CHOOSE k \in 1..Len(Uppers) : Uppers[k] = c]]
LowerCh(c) == IF c \in UpperSet THEN LowerOf[c] ELSE c

\* str.strip()
Strip(s) ==
    IF \A k \in 1..Len(s) : s[k] \in SpaceSet THEN << >>
    ELSE LET first == CHOOSE k \in 1..Len(s) :
                          s[k] \notin SpaceSet /\ \A q \in 1..(k - 1) : s[q] \in SpaceSet
             last == CHOOSE k \in 1..Len(s) :
                         s[k] \notin SpaceSet /\ \A q \in (k + 1)..Len(s) : s[q] \in SpaceSet
         IN  SubSeq(s, first, last)

\* str.startswith(p) / str.endswith(p)
StartsWith(s, p) == Len(s) >= Len(p) /\ \A k \in 1..Len(p) : s[k] = p[k]
EndsWith(s, p) == Len(s) >= Len(p) /\ \A k \in 1..Len(p) : s[Len(s) - Len(p) + k] = p[k]

\* str.isupper(): at least one cased character and no lowercase one
IsUpperStr(s) ==
    /\ \E k \in 1..Len(s) : s[k] \in UpperSet
    /\ \A k \in 1..Len(s) : s[k] \notin LowerSet

\* str.split('\n'): always at least one piece
RECURSIVE SplitLines(_)
SplitLines(s) ==
    IF \A k \in 1..Len(s) : s[k] # "\n" THEN << s >>
    ELSE LET nl == CHOOSE k \in 1..Len(s) :
                       s[k] = "\n" /\ \A q \in 1..(k - 1) : s[q] # "\n"
         IN  << SubSeq(s, 1, nl - 1) >> \o SplitLines(SubSeq(s, nl + 1, Len(s)))

\* sep.join(seq)
RECURSIVE Join(_, _)
Join(sep, seq) ==
    IF seq = << >> THEN << >>
    ELSE IF Len(seq) = 1 THEN seq[1]
    ELSE seq[1] \o sep \o Join(sep, Tail(seq))

\* ' '.join(seq)
JoinSp(seq) == Join(<< " " >>, seq)

\* str(n) for the small naturals the heading rules format
RECURSIVE IntStr(_)
IntStr(n) ==
    IF n < 10 THEN << Digits[n + 1] >>
    ELSE Append(IntStr(n \div 10), Digits[(n % 10) + 1])

\* ------------------------------------------------------------------------
\* re.sub as the spacing passes use it: leftmost, non-overlapping matches
\* ------------------------------------------------------------------------

\* whether r'[A][B]' matches at position k of s
PairAt(A, B, s, k) == k < Len(s) /\ s[k] \in A /\ s[k + 1] \in B

\* re.sub(r'([A])([B])', r'\1 \2', s) for character classes A and B, scanning
\* from position k; with no match left the rest is copied as it is
RECURSIVE InsertSpaceFrom(_, _, _, _)
InsertSpaceFrom(A, B, s, k) ==
    IF \A q \in k..Len(s) : ~PairAt(A, B, s, q) THEN SubSeq(s, k, Len(s))
    ELSE IF PairAt(A, B, s, k)
         THEN << s[k], " ", s[k + 1] >> \o InsertSpaceFrom(A, B, s, k + 2)
         ELSE << s[k] >> \o InsertSpaceFrom(A, B, s, k + 1)

InsertSpace(A, B, s) == InsertSpaceFrom(A, B, s, 1)

\* len(re.findall(r'[A][B]', s)), scanning from position k
RECURSIVE CountPairsFrom(_, _, _, _)
CountPairsFrom(A, B, s, k) ==
    IF \A q \in k..Len(s) : ~PairAt(A, B, s, q) THEN 0
    ELSE IF PairAt(A, B, s, k)
         THEN 1 + CountPairsFrom(A, B, s, k + 2)
         ELSE CountPairsFrom(A, B, s, k + 1)

CountPairs(A, B, s) == CountPairsFrom(A, B, s, 1)

\* whether the lowercase literal matches at position k of s, ignoring case
MatchesAt(merged, s, k) ==
    /\ k + Len(merged) - 1 <= Len(s)
    /\ \A q \in 1..Len(merged) : LowerCh(s[k + q - 1]) = merged[q]

\* re.sub(merged, separated, s, flags=re.IGNORECASE) for a literal lowercase
\* pattern, scanning from position k: the match is found in any letter case,
\* the replacement is literal; with no match left the rest is copied as it is
RECURSIVE SubFrom(_, _, _, _)
SubFrom(merged, separated, s, k) ==
    IF \A q \in k..Len(s) : ~MatchesAt(merged, s, q) THEN SubSeq(s, k, Len(s))
    ELSE IF MatchesAt(merged, s, k)
         THEN separated \o SubFrom(merged, separated, s, k + Len(merged))
         ELSE << s[k] >> \o SubFrom(merged, separated, s, k + 1)

SubIgnoreCase(merged, separated, s) == SubFrom(merged, separated, s, 1)

\* re.sub(r' +', ' ', s), scanning from position k: a run of spaces becomes one
\* space, so a space that follows a space is dropped
RECURSIVE CollapseFrom(_, _)
CollapseFrom(s, k) ==
    IF \A q \in Max(k, 2)..Len(s) : ~(s[q] = " " /\ s[q - 1] = " ")
    THEN SubSeq(s, k, Len(s))
    ELSE IF s[k] = " " /\ k > 1 /\ s[k - 1] = " "
         THEN CollapseFrom(s, k + 1)
         ELSE << s[k] >> \o CollapseFrom(s, k + 1)

CollapseSpaces(s) == CollapseFrom(s, 1)

\* whether r'[a-z]-\n[a-z]' matches at position k of s
BreakAt(s, k) ==
    /\ k + 3 <= Len(s)
    /\ s[k] \in LowerSet
    /\ s[k + 1] = "-"
    /\ s[k + 2] = "\n"
    /\ s[k + 3] \in LowerSet

\* re.sub(r'([a-z])-\n([a-z])', r'\1\2', s), scanning from position k
RECURSIVE DehyphenateFrom(_, _)
DehyphenateFrom(s, k) ==
    IF \A q \in k..Len(s) : ~BreakAt(s, q) THEN SubSeq(s, k, Len(s))
    ELSE IF BreakAt(s, k)
         THEN << s[k], s[k + 3] >> \o DehyphenateFrom(s, k + 4)
         ELSE << s[k] >> \o DehyphenateFrom(s, k + 1)

Dehyphenate(s) == DehyphenateFrom(s, 1)

\* ------------------------------------------------------------------------
\* The spacing normalizer
\* ------------------------------------------------------------------------

\* the dict common_merges, in insertion order
common_merges ==
    << << Chars("andthe"), Chars("and the") >>,
       << Chars("ofthe"), Chars("of the") >>,
       << Chars("inthe"), Chars("in the") >>,
       << Chars("tothe"), Chars("to the") >>,
       << Chars("forthe"), Chars("for the") >>,
       << Chars("withthe"), Chars("with the") >>,
       << Chars("onthe"), Chars("on the") >>,
       << Chars("atthe"), Chars("at the") >>,
       << Chars("bythe"), Chars("by the") >>,
       << Chars("fromthe"), Chars("from the") >>,
       << Chars("thatthe"), Chars("that the") >>,
       << Chars("thisthe"), Chars("this the") >>,
       << Chars("itis"), Chars("it is") >>,
       << Chars("thisis"), Chars("this is") >>,
       << Chars("thereis"), Chars("there is") >>,
       << Chars("therefor"), Chars("therefore") >>,
       << Chars("however"), Chars("however") >>,
       << Chars("moreover"), Chars("moreover") >>,
       << Chars("furthermore"), Chars("furthermore") >> >>

\* for merged, separated in common_merges.items(): re.sub(...)
RECURSIVE ApplyMerges(_, _)
ApplyMerges(s, k) ==
    IF k > Len(common_merges) THEN s
    ELSE ApplyMerges(SubIgnoreCase(common_merges[k][1], common_merges[k][2], s), k + 1)

SentenceEnd == {".", "!", "?"}
ClausePunct == {",", ";", ":"}

\* _preprocess_spacing without the clean-up of multiple spaces
_preprocess_spacing_NoCollapse(text) ==
    LET p1  == InsertSpace(LowerSet, UpperSet, text)
        p2a == InsertSpace(AlphaSet, DigitSet, p1)
        p2b == InsertSpace(DigitSet, AlphaSet, p2a)
        p3  == ApplyMerges(p2b, 1)
        p4a == InsertSpace(SentenceEnd, UpperSet, p3)
        p4b == InsertSpace(ClausePunct, AlphaSet, p4a)
        p6  == Dehyphenate(p4b)
    IN  p6

\* _preprocess_spacing without the substitution after , ; :
_preprocess_spacing_NoClausePunct(text) ==
    LET p1  == InsertSpace(LowerSet, UpperSet, text)
        p2a == InsertSpace(AlphaSet, DigitSet, p1)
        p2b == InsertSpace(DigitSet, AlphaSet, p2a)
        p3  == ApplyMerges(p2b, 1)
        p4a == InsertSpace(SentenceEnd, UpperSet, p3)
        p5  == CollapseSpaces(p4a)
        p6  == Dehyphenate(p5)
    IN  p6

_preprocess_spacing(text) ==
    LET p1  == InsertSpace(LowerSet, UpperSet, text)
        p2a == InsertSpace(AlphaSet, DigitSet, p1)
        p2b == InsertSpace(DigitSet, AlphaSet, p2a)
        p3  == ApplyMerges(p2b, 1)
        p4a == InsertSpace(SentenceEnd, UpperSet, p3)
        p4b == InsertSpace(ClausePunct, AlphaSet, p4a)
        p5  == CollapseSpaces(p4b)
        p6  == Dehyphenate(p5)
    IN  p6

\* issues_found of _post_process_spacing
IssuesFound(text) ==
    CountPairs(LowerSet, UpperSet, text)
    + CountPairs(AlphaSet, DigitSet, text)
    + CountPairs(DigitSet, AlphaSet, text)
    + CountPairs(SentenceEnd, UpperSet, text)
    + CountPairs(ClausePunct, AlphaSet, text)

\* the post-processing pass if it were the pre-processing pass run again
_post_process_spacing_SamePass(text) == _preprocess_spacing(text)

_post_process_spacing(text) ==
    IF IssuesFound(text) > 0
    THEN LET f1 == InsertSpace(LowerSet, UpperSet, text)
             f2 == InsertSpace(AlphaSet, DigitSet, f1)
             f3 == InsertSpace(DigitSet, AlphaSet, f2)
             f4 == InsertSpace(SentenceEnd, UpperSet, f3)
             f5 == InsertSpace(ClausePunct, AlphaSet, f4)
         IN  CollapseSpaces(f5)
    ELSE text

\* ------------------------------------------------------------------------
\* QualityChecker
\* ------------------------------------------------------------------------

\* \w, and the characters the first garbled pattern lets through besides \w, \s
WordSet == AlphaSet \cup DigitSet \cup { "_" }
PlainPunct == { ".", ",", "!", "?", ";", ":", "(", ")", "-", "'", "\"" }
IsSpecial(c) == c \notin WordSet /\ c \notin SpaceSet /\ c \notin PlainPunct
IsWordCh(c) == c \in WordSet
IsSpaceCh(c) == c = " "

\* len(re.findall(X{n,}, text)) for a class X, given as hit[k] = (text[k] is in
\* X): the maximal runs of length >= n
RunsAtLeast(n, hit) ==
    Cardinality({ k \in 1..Len(hit) :
        /\ hit[k]
        /\ (k = 1 \/ ~hit[k - 1])
        /\ k + n - 1 <= Len(hit)
        /\ \A q \in k..(k + n - 1) : hit[q] })

\* QualityChecker.check_spacing_quality
check_spacing_quality(text) ==
    (IF CountPairs(LowerSet, UpperSet, text) + CountPairs(AlphaSet, DigitSet, text)
        + CountPairs(DigitSet, AlphaSet, text) + CountPairs(SentenceEnd, UpperSet, text) > 0
     THEN << "spacing" >> ELSE << >>)
    \o (IF RunsAtLeast(3, [k \in 1..Len(text) |-> IsSpaceCh(text[k])]) > 0
        THEN << "excessive" >> ELSE << >>)

\* QualityChecker.check_text_quality
check_text_quality(text) ==
    (IF RunsAtLeast(3, [k \in 1..Len(text) |-> IsSpecial(text[k])]) > 0
     THEN << "garbled" >> ELSE << >>)
    \o (IF RunsAtLeast(50, [k \in 1..Len(text) |-> IsWordCh(text[k])]) > 0
        THEN << "garbled" >> ELSE << >>)

\* quality_issues.extend(spacing_issues + text_issues)
QualityIssues(text) == check_spacing_quality(text) \o check_text_quality(text)

\* ------------------------------------------------------------------------
\* The heading classifier
\* ------------------------------------------------------------------------

MajorMaxLen == 60
ColonMaxLen == 50
HeadingMaxLen == 100
MaxNumbered == 20
MaxSubNumbered == 10

\* the prefix lists of _detect_heading_level
Level1Prefixes == { Chars("CHAPTER"), Chars("PART"), Chars("SECTION I"), Chars("APPENDIX") }
Level2Prefixes == { Chars("Chapter"), Chars("Section"), Chars("Part") }
Level3Prefixes ==
    { Chars("Introduction"), Chars("Conclusion"), Chars("Summary"), Chars("Overview") }

\* the prefix lists of _is_heading
HeadingPrefixes ==
    { Chars("CHAPTER"), Chars("PART"), Chars("SECTION"), Chars("APPENDIX"),
      Chars("INTRODUCTION"), Chars("CONCLUSION"),
      Chars("Chapter"), Chars("Part"), Chars("Section"), Chars("Appendix"),
      Chars("Introduction"), Chars("Conclusion") }
MoreHeadingPrefixes ==
    { Chars("Summary"), Chars("Overview"), Chars("Abstract"), Chars("References"),
      Chars("Bibliography") }

StartsWithAny(s, prefixes) == \E p \in prefixes : StartsWith(s, p)

\* f'{i}.' for i in range(1, 21)
NumberPrefixes == { Append(IntStr(n), ".") : n \in 1..MaxNumbered }

\* f'{i}.{j}' for i in range(1, 11) for j in range(1, 11)
SubNumberPrefixes ==
    { Append(IntStr(n), ".") \o IntStr(m) : n \in 1..MaxSubNumbered, m \in 1..MaxSubNumbered }

IsNumbered(t) == StartsWithAny(t, NumberPrefixes)
IsSubNumbered(t) == StartsWithAny(t, SubNumberPrefixes)

\* _detect_heading_level with the level-3 test placed before the level-2 test
_detect_heading_level_Level3First(text) ==
    LET t == Strip(text) IN
    IF \/ (IsUpperStr(t) /\ Len(t) < MajorMaxLen)
       \/ StartsWithAny(t, Level1Prefixes)
    THEN 1
    ELSE IF \/ IsSubNumbered(t)
            \/ StartsWithAny(t, Level3Prefixes)
    THEN 3
    ELSE IF \/ StartsWithAny(t, Level2Prefixes)
            \/ (EndsWith(t, << ":" >>) /\ Len(t) < ColonMaxLen)
            \/ IsNumbered(t)
    THEN 2
    ELSE 0

\* _detect_heading_level without the all-uppercase rule of level 1
_detect_heading_level_NoUpper(text) ==
    LET t == Strip(text) IN
    IF StartsWithAny(t, Level1Prefixes)
    THEN 1
    ELSE IF \/ StartsWithAny(t, Level2Prefixes)
            \/ (EndsWith(t, << ":" >>) /\ Len(t) < ColonMaxLen)
            \/ IsNumbered(t)
    THEN 2
    ELSE IF \/ IsSubNumbered(t)
            \/ StartsWithAny(t, Level3Prefixes)
    THEN 3
    ELSE 0

_detect_heading_level(text) ==
    LET t == Strip(text) IN
    IF \/ (IsUpperStr(t) /\ Len(t) < MajorMaxLen)
       \/ StartsWithAny(t, Level1Prefixes)
    THEN 1
    ELSE IF \/ StartsWithAny(t, Level2Prefixes)
            \/ (EndsWith(t, << ":" >>) /\ Len(t) < ColonMaxLen)
            \/ IsNumbered(t)
    THEN 2
    ELSE IF \/ IsSubNumbered(t)
            \/ StartsWithAny(t, Level3Prefixes)
    THEN 3
    ELSE 0

\* _is_heading without the check that skips very long lines
_is_heading_NoCap(text) ==
    LET t == Strip(text) IN
    \/ (IsUpperStr(t) /\ Len(t) < MajorMaxLen)
    \/ (EndsWith(t, << ":" >>) /\ Len(t) < ColonMaxLen)
    \/ StartsWithAny(t, HeadingPrefixes)
    \/ IsNumbered(t)
    \/ IsSubNumbered(t)
    \/ StartsWithAny(t, MoreHeadingPrefixes)

_is_heading(text) ==
    LET t == Strip(text) IN
    IF Len(t) > HeadingMaxLen THEN FALSE
    ELSE \/ (IsUpperStr(t) /\ Len(t) < MajorMaxLen)
         \/ (EndsWith(t, << ":" >>) /\ Len(t) < ColonMaxLen)
         \/ StartsWithAny(t, HeadingPrefixes)
         \/ IsNumbered(t)
         \/ IsSubNumbered(t)
         \/ StartsWithAny(t, MoreHeadingPrefixes)

\* ------------------------------------------------------------------------
\* The document assembler (create_word_document).  Line indices are 1-based
\* here; the code's i, j and heading_idx are these minus one.
\* ------------------------------------------------------------------------

\* what doc.add_paragraph(), doc.add_heading(line, level) and doc.add_paragraph()
\* followed by add_run(text) append to the document
Blank == [kind |-> "Blank", text |-> << >>, level |-> 0]
Heading(t, l) == [kind |-> "Heading", text |-> t, level |-> l]
Paragraph(t) == [kind |-> "Paragraph", text |-> t, level |-> 0]

\* first pass: the list headings of (index, stripped line, level)
RECURSIVE FirstPass(_, _)
FirstPass(ls, k) ==
    IF k > Len(ls) THEN << >>
    ELSE (IF Strip(ls[k]) # << >> /\ _is_heading(ls[k])
          THEN << [idx |-> k, text |-> Strip(ls[k]),
                   level |-> _detect_heading_level(ls[k])] >>
          ELSE << >>) \o FirstPass(ls, k + 1)

\* any(heading_idx == k for heading_idx, _, _ in headings)
IsHeadingIdx(hs, k) == \E n \in 1..Len(hs) : hs[n].idx = k

\* heading_level after the for loop with break: the first entry for index k
HeadingLevelAt(hs, k) ==
    LET n == CHOOSE m \in 1..Len(hs) :
                 hs[m].idx = k /\ \A q \in 1..(m - 1) : hs[q].idx # k
    IN  hs[n].level

\* the inner while without its test for heading lines
RECURSIVE ParagraphEnd_IgnoresHeadings(_, _, _)
ParagraphEnd_IgnoresHeadings(ls, hs, j) ==
    IF j > Len(ls) THEN j
    ELSE IF Strip(ls[j]) = << >> THEN j
    ELSE ParagraphEnd_IgnoresHeadings(ls, hs, j + 1)

\* the inner while: the first j at which collection stops
RECURSIVE ParagraphEnd(_, _, _)
ParagraphEnd(ls, hs, j) ==
    IF j > Len(ls) THEN j
    ELSE IF Strip(ls[j]) = << >> THEN j
    ELSE IF IsHeadingIdx(hs, j) THEN j
    ELSE ParagraphEnd(ls, hs, j + 1)

\* paragraph_lines for a paragraph that starts at k and stops before j
ParagraphLines(ls, k, j) == [n \in 1..(j - k) |-> Strip(ls[k + n - 1])]

\* which branch one iteration of the outer while takes at cursor k
IterKind(ls, hs, k) ==
    IF Strip(ls[k]) = << >> THEN "Blank"
    ELSE IF IsHeadingIdx(hs, k) THEN "Heading"
    ELSE "Paragraph"

\* the block one iteration appends when add_heading is given heading_level as
\* it is, without max(1, heading_level)
IterBlock_NoFloor(ls, hs, k) ==
    CASE IterKind(ls, hs, k) = "Blank" -> Blank
      [] IterKind(ls, hs, k) = "Heading" ->
            Heading(Strip(ls[k]), HeadingLevelAt(hs, k))
      [] OTHER ->
            Paragraph(JoinSp(ParagraphLines(ls, k, ParagraphEnd(ls, hs, k + 1))))

\* the block one iteration appends
IterBlock(ls, hs, k) ==
    CASE IterKind(ls, hs, k) = "Blank" -> Blank
      [] IterKind(ls, hs, k) = "Heading" ->
            Heading(Strip(ls[k]), Max(1, HeadingLevelAt(hs, k)))
      [] OTHER ->
            Paragraph(JoinSp(ParagraphLines(ls, k, ParagraphEnd(ls, hs, k + 1))))

\* the cursor after one iteration when i = j - 1 is left out
IterCursor_NoJump(ls, hs, k) == k + 1

\* the cursor after one iteration: i += 1, or i = j - 1 and then i += 1
IterCursor(ls, hs, k) ==
    IF IterKind(ls, hs, k) = "Paragraph"
    THEN (ParagraphEnd(ls, hs, k + 1) - 1) + 1
    ELSE k + 1

\* the outer while run to its end
RECURSIVE AssembleFrom(_, _, _, _)
AssembleFrom(ls, hs, k, bs) ==
    IF k > Len(ls) THEN bs
    ELSE AssembleFrom(ls, hs, IterCursor(ls, hs, k), Append(bs, IterBlock(ls, hs, k)))

\* the blocks create_word_document hands to doc.save
AssembleText(processed_text) ==
    LET ls == SplitLines(processed_text)
    IN  AssembleFrom(ls, FirstPass(ls, 1), 1, << >>)

\* ------------------------------------------------------------------------
\* Bounds of the model and the inputs drawn within them
\* ------------------------------------------------------------------------

MaxPages == 1
MaxModels == 2
MaxRequests == 2
MaxLines == 3
MaxTokens == 2
MaxPad == 104
MaxClicks == 4

\* all sequences over S of length 0..n
RECURSIVE SeqsUpTo(_, _)
SeqsUpTo(S, n) ==
    IF n = 0 THEN { << >> }
    ELSE LET shorter == SeqsUpTo(S, n - 1)
         IN  shorter \cup { Append(q, e) : q \in { r \in shorter : Len(r) = n - 1 }, e \in S }

\* ''.join(seq) and '\n'.join(seq)
Concat(seq) == Join(<< >>, seq)
JoinNl(seq) == Join(<< "\n" >>, seq)

\* c * n
Repeat(c, n) == [k \in 1..n |-> c]

\* what page.extract_text() / page.get_text() may give for one page
PageTexts == { Chars(""), Chars(" "), Chars("TITLE\nitis5") }

\* what response.text of a model that answers may be
RewriteTexts == { Chars(""), Chars("SECTION:\nit.Is ###") }

\* the lines documents handed to the assembler are made of
LineChoices ==
    { Chars(""), Chars("  "), Chars("TITLE"), Chars("Para one."),
      Chars(" Para two continues. "), Chars("SECTION:"), Chars("1.2 Background"),
      Chars("Appendix A"), Chars("CHAPTER ") \o Repeat("X", HeadingMaxLen) }

\* the structural-integrity example of the design
ExampleLines ==
    << Chars("TITLE"), Chars(""), Chars("Para one."), Chars("Para two continues."),
       Chars(""), Chars("SECTION:"), Chars("Body.") >>

AssemblerTexts ==
    { JoinNl(q) : q \in SeqsUpTo(LineChoices, MaxLines) \ { << >> } }
    \cup { JoinNl(ExampleLines) }

\* the pieces texts handed to the normalizer are made of
NormTokens ==
    { Chars("a"), Chars("Bc"), Chars("5"), Chars("."), Chars(","), Chars(" "),
      Chars("-\n"), Chars("itis"), Chars("therefor"), Chars("e"), Chars("andthe"),
      Chars("word") }

\* the inputs of test_spacing_fixes
NormalizerExamples ==
    { Chars("thequickbrownfox"), Chars("andtheresults"), Chars("itis5years"),
      Chars("word.Another"), Chars("However,thecompany"), Chars("therefor"),
      Chars("wordAnother") }

\* further texts: a table key inside a longer word, a wrapped word next to a
\* run of spaces
NormalizerCases == { Chars("Matthew"), Chars("wrap-\nped  text") }

NormalizerTexts ==
    { Concat(q) : q \in SeqsUpTo(NormTokens, MaxTokens) }
    \cup NormalizerExamples \cup NormalizerCases

\* lines handed to the classifier: a head, a run of one filler, a tail
ClassifierHeads ==
    { Chars(""), Chars("CHAPTER "), Chars("PART"), Chars("SECTION I"), Chars("Chapter "),
      Chars("Section"), Chars("Summary "), Chars("Abstract"), Chars("1. "), Chars("20."),
      Chars("21."), Chars("Body ") }
ClassifierFills == { "x", "X" }
ClassifierTails == { Chars(""), Chars(":") }
SubNumberRests == { Chars(""), Chars(" Background"), Chars(" BACKGROUND"), Chars(":") }

\* lines the design names as examples of the classifier
ClassifierExamples == { Chars("CHAPTER ONE"), Chars("1.2 Background") }

\* ------------------------------------------------------------------------
\* State
\* ------------------------------------------------------------------------

VARIABLES
    \* convert_pdf_to_word and the converter object
    pc,                      \* position in convert_pdf_to_word
    requests,                \* conversions started so far
    pdf_exists,              \* os.path.exists(pdf_path) of the current call
    generate_report,         \* the argument generate_report of the current call
    quality_enabled,         \* advanced_features was imported: QualityChecker,
                             \* DocumentAnalyzer and create_conversion_report are not None
    quality_issues,          \* the list quality_issues of the current call
    stats_enabled,           \* self.stats is not None
    stats,                   \* self.stats.stats (the counters)
    recorded_method,         \* extraction_method of the last record_conversion call
    model_names,             \* self.model_names
    extraction_method_used,  \* self.extraction_method_used ("None" for None)
    method_idx,              \* cursor of the for loop over extraction_methods
    attempts,                \* backend calls of this conversion, with outcomes
    open_sources,            \* backends whose source handle is open
    raw_text,
    pages_processed,
    model_idx,               \* cursor of the for loop over model_names
    model_calls,             \* generate_content calls of this conversion, with outcomes
    ai_processed_text,
    final_text,
    success,
    result,                  \* how the call ended: "none", "returned" or the exception
    \* create_word_document
    apc,                     \* position in create_word_document
    processed_text,
    lines,
    headings,
    i,                       \* the cursor (1-based)
    blocks,                  \* the document being built
    spans,                   \* history: first and last line index of each block
    document,                \* what doc.save(output_path) wrote, << >> if nothing
    \* one line through the classifier
    cpc, cline, clevel, cheading, cblocks,
    \* one text through the normalizer, twice
    npc, ntext, nonce, ntwice,
    \* the same text through _post_process_spacing
    npost,
    \* the window of pdf_to_word_gui.py
    is_converting,           \* self.is_converting
    convert_button,          \* state of self.convert_button
    clicks,                  \* history: invocations of start_conversion requested so far
    pending_clicks,          \* invocations the Tk main loop has still to dispatch
    callbacks,               \* root.after(0, ...) callbacks still to dispatch
    threads,                 \* the threads started, each "running" or "finished"
    handled                  \* history: the completion callbacks run, in order

convVars == << pc, requests, pdf_exists, generate_report, quality_enabled,
               quality_issues, stats_enabled, stats, recorded_method, model_names,
               extraction_method_used, method_idx, attempts, open_sources, raw_text,
               pages_processed, model_idx, model_calls, ai_processed_text, final_text,
               success, result >>
asmVars == << apc, processed_text, lines, headings, i, blocks, spans, document >>
clsVars == << cpc, cline, clevel, cheading, cblocks >>
normVars == << npc, ntext, nonce, ntwice, npost >>
guiVars == << is_converting, convert_button, clicks, pending_clicks, callbacks, threads,
             handled >>
vars == << convVars, asmVars, clsVars, normVars, guiVars >>

\* ------------------------------------------------------------------------
\* create_word_document, one action per iteration of its outer loop
\* ------------------------------------------------------------------------

AsmIdle ==
    /\ apc = "idle"
    /\ processed_text = << >>
    /\ lines = << >>
    /\ headings = << >>
    /\ i = 1
    /\ blocks = << >>
    /\ spans = << >>
    /\ document = << >>

\* doc = Document(); lines = split; first pass; i = 0
AsmBegin ==
    /\ apc = "begin"
    /\ lines' = SplitLines(processed_text)
    /\ headings' = FirstPass(SplitLines(processed_text), 1)
    /\ i' = 1
    /\ blocks' = << >>
    /\ spans' = << >>
    /\ apc' = "loop"
    /\ UNCHANGED << processed_text, document >>
    /\ UNCHANGED << convVars, clsVars, normVars, guiVars >>

\* what one iteration of while i < len(lines) does to the document and cursor
AsmIter ==
    /\ blocks' = Append(blocks, IterBlock(lines, headings, i))
    /\ i' = IterCursor(lines, headings, i)
    /\ spans' = Append(spans, << i, i' - 1 >>)
    /\ UNCHANGED << apc, processed_text, lines, headings, document >>
    /\ UNCHANGED << convVars, clsVars, normVars, guiVars >>

\* if not line: doc.add_paragraph(); i += 1; continue
AsmBlank ==
    /\ apc = "loop"
    /\ i <= Len(lines)
    /\ IterKind(lines, headings, i) = "Blank"
    /\ AsmIter

\* if is_heading_line: doc.add_heading(...); i += 1
AsmHeading ==
    /\ apc = "loop"
    /\ i <= Len(lines)
    /\ IterKind(lines, headings, i) = "Heading"
    /\ AsmIter

\* else: collect paragraph_lines, add the paragraph; i = j - 1; i += 1
AsmParagraph ==
    /\ apc = "loop"
    /\ i <= Len(lines)
    /\ IterKind(lines, headings, i) = "Paragraph"
    /\ AsmIter

\* doc.save(output_path) called from inside the loop, before its last iteration
AsmSave_BeforeEnd ==
    /\ apc = "loop"
    /\ document' = blocks
    /\ apc' = "done"
    /\ UNCHANGED << processed_text, lines, headings, i, blocks, spans >>
    /\ UNCHANGED << convVars, clsVars, normVars, guiVars >>

\* doc.save(output_path) succeeds
AsmSave ==
    /\ apc = "loop"
    /\ i > Len(lines)
    /\ document' = blocks
    /\ apc' = "done"
    /\ UNCHANGED << processed_text, lines, headings, i, blocks, spans >>
    /\ UNCHANGED << convVars, clsVars, normVars, guiVars >>

\* doc.save(output_path) raises; the except clause logs and re-raises
AsmSaveFails ==
    /\ apc = "loop"
    /\ i > Len(lines)
    /\ apc' = "raised"
    /\ UNCHANGED << processed_text, lines, headings, i, blocks, spans, document >>
    /\ UNCHANGED << convVars, clsVars, normVars, guiVars >>

\* ------------------------------------------------------------------------
\* The classifier applied to one line, and the line assembled on its own
\* ------------------------------------------------------------------------

ClsIdle ==
    /\ cpc = "idle"
    /\ cline = << >>
    /\ clevel = 0
    /\ cheading = FALSE
    /\ cblocks = << >>

Classify ==
    /\ cpc = "line"
    /\ clevel' = _detect_heading_level(cline)
    /\ cheading' = _is_heading(cline)
    /\ cblocks' = AssembleText(cline)
    /\ cpc' = "classified"
    /\ UNCHANGED cline
    /\ UNCHANGED << convVars, asmVars, normVars, guiVars >>

\* ------------------------------------------------------------------------
\* The normalizer applied to a text, and again to its own output
\* ------------------------------------------------------------------------

NormIdle ==
    /\ npc = "idle"
    /\ ntext = << >>
    /\ nonce = << >>
    /\ ntwice = << >>
    /\ npost = << >>

NormalizeOnce ==
    /\ npc = "text"
    /\ nonce' = _preprocess_spacing(ntext)
    /\ npc' = "once"
    /\ UNCHANGED << ntext, ntwice, npost >>
    /\ UNCHANGED << convVars, asmVars, clsVars, guiVars >>

NormalizeTwice ==
    /\ npc = "once"
    /\ ntwice' = _preprocess_spacing(nonce)
    /\ npc' = "twice"
    /\ UNCHANGED << ntext, nonce, npost >>
    /\ UNCHANGED << convVars, asmVars, clsVars, guiVars >>

\* the post-processing pass applied to the same text
PostProcessOnce ==
    /\ npc = "twice"
    /\ npost' = _post_process_spacing(ntext)
    /\ npc' = "post"
    /\ UNCHANGED << ntext, nonce, ntwice >>
    /\ UNCHANGED << convVars, asmVars, clsVars, guiVars >>


\* ------------------------------------------------------------------------
\* PDFToWordGUI: the Tk main loop dispatches one event at a time; conversions
\* run in worker threads that report back with root.after
\* ------------------------------------------------------------------------

\* PDFToWordGUI.__init__
GuiIdle ==
    /\ is_converting = FALSE
    /\ convert_button = "normal"
    /\ clicks = 0
    /\ pending_clicks = 0
    /\ callbacks = { }
    /\ threads = << >>
    /\ handled = << >>

\* start_conversion without its test of is_converting
StartAllowed_Always(converting) == TRUE

\* if self.is_converting: return
StartAllowed(converting) == ~converting

\* the threads that have not yet handed their result to the main loop
RunningThreads == { t \in 1..Len(threads) : threads[t] = "running" }

\* start_conversion is invoked: the event waits for the main loop
GuiClick ==
    /\ clicks < MaxClicks
    /\ clicks' = clicks + 1
    /\ pending_clicks' = pending_clicks + 1
    /\ UNCHANGED << is_converting, convert_button, callbacks, threads, handled >>
    /\ UNCHANGED << convVars, asmVars, clsVars, normVars >>

\* start_conversion while a conversion is under way: return
start_conversion_Busy ==
    /\ pending_clicks > 0
    /\ ~StartAllowed(is_converting)
    /\ pending_clicks' = pending_clicks - 1
    /\ UNCHANGED << is_converting, convert_button, clicks, callbacks, threads, handled >>
    /\ UNCHANGED << convVars, asmVars, clsVars, normVars >>

\* start_conversion when validate_inputs returns False: return
start_conversion_Invalid ==
    /\ pending_clicks > 0
    /\ StartAllowed(is_converting)
    /\ pending_clicks' = pending_clicks - 1
    /\ UNCHANGED << is_converting, convert_button, clicks, callbacks, threads, handled >>
    /\ UNCHANGED << convVars, asmVars, clsVars, normVars >>

\* start_conversion: is_converting = True, the button is disabled, the thread
\* is started
start_conversion ==
    /\ pending_clicks > 0
    /\ StartAllowed(is_converting)
    /\ pending_clicks' = pending_clicks - 1
    /\ is_converting' = TRUE
    /\ convert_button' = "disabled"
    /\ threads' = Append(threads, "running")
    /\ UNCHANGED << clicks, callbacks, handled >>
    /\ UNCHANGED << convVars, asmVars, clsVars, normVars >>

\* perform_conversion in thread t ends with root.after(0, callback, ...)
PostCallback(t, callback) ==
    /\ t \in RunningThreads
    /\ threads' = [threads EXCEPT ![t] = "finished"]
    /\ callbacks' = callbacks \cup { [kind |-> callback, thread |-> t] }
    /\ UNCHANGED << is_converting, convert_button, clicks, pending_clicks, handled >>
    /\ UNCHANGED << convVars, asmVars, clsVars, normVars >>

\* the converter is built and convert_pdf_to_word returns the output file
perform_conversion_Returns ==
    \E t \in RunningThreads : PostCallback(t, "conversion_success")

\* the constructor or convert_pdf_to_word raises: the except clause
perform_conversion_Raises ==
    \E t \in RunningThreads : PostCallback(t, "conversion_error")

\* what conversion_success and conversion_error do to the window
RunCallback(kind) ==
    \E cb \in callbacks :
        /\ cb.kind = kind
        /\ is_converting' = FALSE
        /\ convert_button' = "normal"
        /\ callbacks' = callbacks \ { cb }
        /\ handled' = Append(handled, cb)
        /\ UNCHANGED << clicks, pending_clicks, threads >>
        /\ UNCHANGED << convVars, asmVars, clsVars, normVars >>

conversion_success == RunCallback("conversion_success")

conversion_error == RunCallback("conversion_error")

\* ------------------------------------------------------------------------
\* extract_text_from_pdf and the three backend adapters
\* ------------------------------------------------------------------------

\* the list extraction_methods with its first two entries exchanged
extraction_methods_Exchanged == << "PyMuPDF", "pdfplumber", "PyPDF2" >>

\* the list extraction_methods, by method_name
extraction_methods == << "pdfplumber", "PyMuPDF", "PyPDF2" >>

\* the loop body shared by the adapters:
\* if page_text: text_content += page_text + "\n\n"
RECURSIVE PagesText(_)
PagesText(pages) ==
    IF pages = << >> THEN << >>
    ELSE (IF Head(pages) # << >> THEN Head(pages) \o << "\n", "\n" >> ELSE << >>)
         \o PagesText(Tail(pages))

\* whether the adapter's source is released when reading a page raises:
\* pdfplumber and PyPDF2 read inside a with block, PyMuPDF calls doc.close()
\* only after the page loop
ClosesOnError(method_name) == method_name \in { "pdfplumber", "PyPDF2" }

\* if text_content and text_content.strip()
IsUsable(text_content) == text_content # << >> /\ Strip(text_content) # << >>

\* max(1, len(raw_text) // 2000)
PagesEstimate(text) == Max(1, Len(text) \div 2000)

\* the same without the final raise: the empty text is returned instead
ExtractionContinues_ReturnsEmpty ==
    IF method_idx < Len(extraction_methods)
    THEN /\ method_idx' = method_idx + 1
         /\ UNCHANGED << pc, result >>
    ELSE /\ pc' = "rewrite"
         /\ UNCHANGED << method_idx, result >>

\* the backend did not give usable text: next backend, or the final raise
ExtractionContinues ==
    IF method_idx < Len(extraction_methods)
    THEN /\ method_idx' = method_idx + 1
         /\ UNCHANGED << pc, result >>
    ELSE /\ result' = "Exception: All PDF extraction methods failed"
         /\ pc' = "finally"
         /\ UNCHANGED method_idx

\* a backend's exception that is not caught inside the loop
BackendRaises_Aborts(stage) ==
    /\ LET m == extraction_methods[method_idx] IN
       /\ attempts' = Append(attempts, [method |-> m, outcome |-> "raised", text |-> << >>])
       /\ open_sources' = IF stage = "read" /\ ~ClosesOnError(m)
                          THEN open_sources \cup { m }
                          ELSE open_sources
    /\ result' = "BackendError"
    /\ pc' = "finally"
    /\ UNCHANGED << requests, pdf_exists, generate_report, quality_enabled,
                    quality_issues, stats_enabled,
                    stats, recorded_method, model_names,
                    extraction_method_used, method_idx, raw_text, pages_processed,
                    model_idx, model_calls, ai_processed_text, final_text, success >>
    /\ UNCHANGED << asmVars, clsVars, normVars, guiVars >>

\* extraction_func(pdf_path) raises: opening the source, or reading a page
BackendRaises(stage) ==
    /\ LET m == extraction_methods[method_idx] IN
       /\ attempts' = Append(attempts, [method |-> m, outcome |-> "raised", text |-> << >>])
       /\ open_sources' = IF stage = "read" /\ ~ClosesOnError(m)
                          THEN open_sources \cup { m }
                          ELSE open_sources
    /\ ExtractionContinues
    /\ UNCHANGED << requests, pdf_exists, generate_report, quality_enabled,
                    quality_issues, stats_enabled,
                    stats, recorded_method, model_names,
                    extraction_method_used, raw_text, pages_processed, model_idx,
                    model_calls, ai_processed_text, final_text, success >>
    /\ UNCHANGED << asmVars, clsVars, normVars, guiVars >>

BackendOpenFails ==
    /\ pc = "extract"
    /\ BackendRaises("open")

BackendReadFails ==
    /\ pc = "extract"
    /\ BackendRaises("read")

\* extraction_func(pdf_path) returns text that is empty or blank
BackendReturnsBlank ==
    /\ pc = "extract"
    /\ \E pages \in SeqsUpTo(PageTexts, MaxPages) :
          /\ ~IsUsable(PagesText(pages))
          /\ attempts' = Append(attempts, [method |-> extraction_methods[method_idx],
                                           outcome |-> "blank", text |-> << >>])
    /\ ExtractionContinues
    /\ UNCHANGED << requests, pdf_exists, generate_report, quality_enabled,
                    quality_issues, stats_enabled,
                    stats, recorded_method, model_names,
                    extraction_method_used, open_sources, raw_text, pages_processed,
                    model_idx, model_calls, ai_processed_text, final_text, success >>
    /\ UNCHANGED << asmVars, clsVars, normVars, guiVars >>

\* extraction_func(pdf_path) returns usable text: extract_text_from_pdf returns,
\* convert_pdf_to_word goes on to step 2
BackendReturnsText ==
    /\ pc = "extract"
    /\ \E text_content \in { PagesText(pages) : pages \in SeqsUpTo(PageTexts, MaxPages) } :
          /\ IsUsable(text_content)
          /\ attempts' = Append(attempts, [method |-> extraction_methods[method_idx],
                                           outcome |-> "text", text |-> text_content])
          /\ extraction_method_used' = extraction_methods[method_idx]
          /\ raw_text' = _preprocess_spacing(text_content)
          /\ IF Strip(raw_text') = << >>
             THEN /\ result' = "ValueError: No text content found in PDF"
                  /\ pc' = "finally"
                  /\ UNCHANGED << pages_processed, model_idx >>
             ELSE /\ pages_processed' = PagesEstimate(raw_text')
                  /\ model_idx' = 1
                  /\ pc' = "rewrite"
                  /\ UNCHANGED result
    /\ UNCHANGED << requests, pdf_exists, generate_report, quality_enabled,
                    quality_issues, stats_enabled,
                    stats, recorded_method, model_names,
                    method_idx, open_sources, model_calls, ai_processed_text,
                    final_text, success >>
    /\ UNCHANGED << asmVars, clsVars, normVars, guiVars >>

\* ------------------------------------------------------------------------
\* process_with_gemini
\* ------------------------------------------------------------------------

\* the fallback list _fetch_available_models returns when listing fails
DefaultModels ==
    << "gemini-2.0-flash-exp", "gemini-1.5-flash", "gemini-1.5-pro", "gemini-pro" >>

\* process_with_gemini returning nothing once the last model has failed
RewriteExhausted_Empty(text_content) == << >>

\* what process_with_gemini returns once the last model has failed
RewriteExhausted(text_content) == text_content

\* the for loop going back to the model it has just tried
NextModel_Same(k) == k

\* the for loop moving on to the next entry of model_names
NextModel(k) == k + 1

\* the for loop over an empty model_names has no iteration: the return
\* text_content after the loop
RewriteNoModels ==
    /\ pc = "rewrite"
    /\ model_names = << >>
    /\ ai_processed_text' = raw_text
    /\ pc' = "create"
    /\ UNCHANGED << requests, pdf_exists, generate_report, quality_enabled,
                    quality_issues, stats_enabled, stats, recorded_method, model_names,
                    extraction_method_used, method_idx, attempts, open_sources,
                    raw_text, pages_processed, model_idx, model_calls, final_text,
                    success, result >>
    /\ UNCHANGED << asmVars, clsVars, normVars, guiVars >>

\* generate_content (or reading response.text) raises for the current model
ModelFails ==
    /\ pc = "rewrite"
    /\ model_idx <= Len(model_names)
    /\ model_calls' = Append(model_calls, [model |-> model_names[model_idx],
                                           outcome |-> "raised", text |-> << >>])
    /\ IF model_idx < Len(model_names)
       THEN /\ model_idx' = NextModel(model_idx)
            /\ UNCHANGED << pc, ai_processed_text >>
       ELSE /\ ai_processed_text' = RewriteExhausted(raw_text)
            /\ pc' = "create"
            /\ UNCHANGED model_idx
    /\ UNCHANGED << requests, pdf_exists, generate_report, quality_enabled,
                    quality_issues, stats_enabled,
                    stats, recorded_method, model_names,
                    extraction_method_used, method_idx, attempts, open_sources,
                    raw_text, pages_processed, final_text, success, result >>
    /\ UNCHANGED << asmVars, clsVars, normVars, guiVars >>

\* the current model answers: return response.text
ModelAnswers ==
    /\ pc = "rewrite"
    /\ model_idx <= Len(model_names)
    /\ \E response_text \in RewriteTexts :
          /\ model_calls' = Append(model_calls, [model |-> model_names[model_idx],
                                                 outcome |-> "answered",
                                                 text |-> response_text])
          /\ ai_processed_text' = response_text
    /\ pc' = "create"
    /\ UNCHANGED << requests, pdf_exists, generate_report, quality_enabled,
                    quality_issues, stats_enabled,
                    stats, recorded_method, model_names,
                    extraction_method_used, method_idx, attempts, open_sources,
                    raw_text, pages_processed, model_idx, final_text, success, result >>
    /\ UNCHANGED << asmVars, clsVars, normVars, guiVars >>

\* ------------------------------------------------------------------------
\* convert_pdf_to_word
\* ------------------------------------------------------------------------

\* ConversionStats.record_conversion, the counters
\* record_conversion adding the pages of a failed conversion too
RecordConversion_PagesAlways(st, ok, pages) ==
    [ total_conversions |-> st.total_conversions + 1,
      successful_conversions |-> st.successful_conversions + (IF ok THEN 1 ELSE 0),
      failed_conversions |-> st.failed_conversions + (IF ok THEN 0 ELSE 1),
      total_pages_processed |-> st.total_pages_processed + pages ]

RecordConversion(st, ok, pages) ==
    [ total_conversions |-> st.total_conversions + 1,
      successful_conversions |-> st.successful_conversions + (IF ok THEN 1 ELSE 0),
      failed_conversions |-> st.failed_conversions + (IF ok THEN 0 ELSE 1),
      total_pages_processed |-> st.total_pages_processed + (IF ok THEN pages ELSE 0) ]

\* convert_pdf_to_word without the test of os.path.exists(pdf_path)
PathChecked_Ignored(exists) ==
    /\ pc' = "extract"
    /\ result' = "none"

\* if not os.path.exists(pdf_path): raise FileNotFoundError(...)
PathChecked(exists) ==
    IF exists
    THEN /\ pc' = "extract"
         /\ result' = "none"
    ELSE /\ pc' = "finally"
         /\ result' = "FileNotFoundError"

\* the call begins: success = False, pages_processed = 0, os.path.exists(pdf_path)
StartConversion ==
    /\ pc = "idle"
    /\ requests < MaxRequests
    /\ requests' = requests + 1
    /\ success' = FALSE
    /\ pages_processed' = 0
    /\ attempts' = << >>
    /\ model_calls' = << >>
    /\ raw_text' = << >>
    /\ ai_processed_text' = << >>
    /\ final_text' = << >>
    /\ model_idx' = 1
    /\ method_idx' = 1
    /\ quality_issues' = << >>
    /\ pdf_exists' \in BOOLEAN
    /\ generate_report' \in BOOLEAN
    /\ PathChecked(pdf_exists')
    /\ document' = << >>
    /\ UNCHANGED << quality_enabled, stats_enabled, stats, recorded_method, model_names,
                    extraction_method_used, open_sources >>
    /\ UNCHANGED << apc, processed_text, lines, headings, i, blocks, spans >>
    /\ UNCHANGED << clsVars, normVars, guiVars >>

\* step 4: quality_issues = [] and, if QualityChecker, the issues of both checks
AuditedIssues(enabled, text) == IF enabled THEN QualityIssues(text) ELSE << >>

\* step 6 is entered: generate_report and DocumentAnalyzer and
\* create_conversion_report
ReportRequested == generate_report /\ quality_enabled

\* create_conversion_report(..., self.stats, ...) ends in stats.get_summary(),
\* which raises AttributeError when self.stats is None
ReportRaises == ReportRequested /\ ~stats_enabled

\* steps 3 to 6: final_text = _post_process_spacing(...), the quality checks, then
\* create_word_document(final_text, output_path) runs to doc.save, which writes
\* the file, the report if requested; success = True; return output_path
CreateDocument ==
    /\ pc = "create"
    /\ ~ReportRaises
    /\ final_text' = _post_process_spacing(ai_processed_text)
    /\ quality_issues' = AuditedIssues(quality_enabled, final_text')
    /\ document' = AssembleText(final_text')
    /\ success' = TRUE
    /\ result' = "returned"
    /\ pc' = "finally"
    /\ UNCHANGED << requests, pdf_exists, generate_report, quality_enabled, stats_enabled,
                    stats, recorded_method, model_names,
                    extraction_method_used, method_idx, attempts, open_sources,
                    raw_text, pages_processed, model_idx, model_calls,
                    ai_processed_text >>
    /\ UNCHANGED << apc, processed_text, lines, headings, i, blocks, spans >>
    /\ UNCHANGED << clsVars, normVars, guiVars >>

\* the same up to the written document, but create_conversion_report raises:
\* convert_pdf_to_word logs and re-raises with success still False
CreateReportFails ==
    /\ pc = "create"
    /\ ReportRaises
    /\ final_text' = _post_process_spacing(ai_processed_text)
    /\ quality_issues' = AuditedIssues(quality_enabled, final_text')
    /\ document' = AssembleText(final_text')
    /\ result' = "AttributeError"
    /\ pc' = "finally"
    /\ UNCHANGED << requests, pdf_exists, generate_report, quality_enabled, stats_enabled,
                    stats, recorded_method, model_names, extraction_method_used,
                    method_idx, attempts, open_sources, raw_text, pages_processed,
                    model_idx, model_calls, ai_processed_text, success >>
    /\ UNCHANGED << apc, processed_text, lines, headings, i, blocks, spans >>
    /\ UNCHANGED << clsVars, normVars, guiVars >>

\* the same, but doc.save raises: create_word_document logs and re-raises, and so
\* does convert_pdf_to_word
CreateDocumentFails ==
    /\ pc = "create"
    /\ final_text' = _post_process_spacing(ai_processed_text)
    /\ quality_issues' = AuditedIssues(quality_enabled, final_text')
    /\ result' = "WriterError"
    /\ pc' = "finally"
    /\ UNCHANGED << requests, pdf_exists, generate_report, quality_enabled, stats_enabled,
                    stats, recorded_method, model_names,
                    extraction_method_used, method_idx, attempts, open_sources,
                    raw_text, pages_processed, model_idx, model_calls,
                    ai_processed_text, success >>
    /\ UNCHANGED << asmVars, clsVars, normVars, guiVars >>

\* the finally clause: if self.stats: self.stats.record_conversion(...)
Finally ==
    /\ pc = "finally"
    /\ IF stats_enabled
       THEN /\ stats' = RecordConversion(stats, success, pages_processed)
            /\ recorded_method' = extraction_method_used
       ELSE UNCHANGED << stats, recorded_method >>
    /\ pc' = "idle"
    /\ UNCHANGED << requests, pdf_exists, generate_report, quality_enabled,
                    quality_issues, stats_enabled,
                    model_names, extraction_method_used,
                    method_idx, attempts, open_sources, raw_text, pages_processed,
                    model_idx, model_calls, ai_processed_text, final_text, success,
                    result >>
    /\ UNCHANGED << asmVars, clsVars, normVars, guiVars >>

ConvIdle ==
    /\ pc = "idle"
    /\ requests = 0
    /\ pdf_exists = FALSE
    /\ generate_report = FALSE
    /\ quality_issues = << >>
    /\ stats = [ total_conversions |-> 0, successful_conversions |-> 0,
                 failed_conversions |-> 0, total_pages_processed |-> 0 ]
    /\ recorded_method = "None"
    /\ extraction_method_used = "None"
    /\ method_idx = 1
    /\ attempts = << >>
    /\ open_sources = { }
    /\ raw_text = << >>
    /\ pages_processed = 0
    /\ model_idx = 1
    /\ model_calls = << >>
    /\ ai_processed_text = << >>
    /\ final_text = << >>
    /\ success = FALSE
    /\ result = "none"

\* ------------------------------------------------------------------------
\* Specifications
\* ------------------------------------------------------------------------

\* a converter after __init__, then conversion requests one after another;
\* ConversionStats and QualityChecker come from the same import, and
\* self.stats = ConversionStats() if ConversionStats and enable_stats else None
Init ==
    /\ ConvIdle
    /\ GuiIdle
    /\ quality_enabled \in BOOLEAN
    /\ stats_enabled \in { enable_stats \in BOOLEAN : enable_stats => quality_enabled }
    /\ model_names \in { SubSeq(DefaultModels, 1, n) : n \in 1..MaxModels }
    /\ AsmIdle
    /\ ClsIdle
    /\ NormIdle

Next ==
    \/ StartConversion
    \/ BackendOpenFails
    \/ BackendReadFails
    \/ BackendReturnsBlank
    \/ BackendReturnsText
    \/ ModelFails
    \/ ModelAnswers
    \/ CreateDocument
    \/ CreateDocumentFails
    \/ CreateReportFails
    \/ Finally

Spec == Init /\ [][Next]_vars

\* create_word_document called directly on a text
InitAssemble ==
    /\ ConvIdle
    /\ GuiIdle
    /\ stats_enabled = FALSE
    /\ quality_enabled = FALSE
    /\ model_names = DefaultModels
    /\ apc = "begin"
    /\ processed_text \in AssemblerTexts
    /\ lines = << >>
    /\ headings = << >>
    /\ i = 1
    /\ blocks = << >>
    /\ spans = << >>
    /\ document = << >>
    /\ ClsIdle
    /\ NormIdle

NextAssemble ==
    \/ AsmBegin
    \/ AsmBlank
    \/ AsmHeading
    \/ AsmParagraph
    \/ AsmSave
    \/ AsmSaveFails

SpecAssemble == InitAssemble /\ [][NextAssemble]_vars

\* the classifier called on a line
InitClassify ==
    /\ ConvIdle
    /\ GuiIdle
    /\ stats_enabled = FALSE
    /\ quality_enabled = FALSE
    /\ model_names = DefaultModels
    /\ AsmIdle
    /\ cpc = "line"
    /\ \/ \E h \in ClassifierHeads, f \in ClassifierFills, n \in 0..MaxPad,
             t \in ClassifierTails : cline = h \o Repeat(f, n) \o t
       \/ \E h \in SubNumberPrefixes, r \in SubNumberRests : cline = h \o r
       \/ cline \in ClassifierExamples
    /\ clevel = 0
    /\ cheading = FALSE
    /\ cblocks = << >>
    /\ NormIdle

NextClassify == Classify

SpecClassify == InitClassify /\ [][NextClassify]_vars

\* the normalizer called on a text
InitNormalize ==
    /\ ConvIdle
    /\ GuiIdle
    /\ stats_enabled = FALSE
    /\ quality_enabled = FALSE
    /\ model_names = DefaultModels
    /\ AsmIdle
    /\ ClsIdle
    /\ npc = "text"
    /\ ntext \in NormalizerTexts
    /\ nonce = << >>
    /\ ntwice = << >>
    /\ npost = << >>

NextNormalize ==
    \/ NormalizeOnce
    \/ NormalizeTwice
    \/ PostProcessOnce

SpecNormalize == InitNormalize /\ [][NextNormalize]_vars

\* texts handed to process_with_gemini when it is called on its own
RewriteInputs == { Concat(q) : q \in SeqsUpTo(NormTokens, 1) }

\* process_with_gemini called on its own, as test_converter.py does, for any
\* value of the attribute model_names, the empty list included
InitRewrite ==
    /\ pc = "rewrite"
    /\ requests = 0
    /\ pdf_exists = FALSE
    /\ generate_report = FALSE
    /\ quality_enabled = FALSE
    /\ quality_issues = << >>
    /\ stats_enabled = FALSE
    /\ stats = [ total_conversions |-> 0, successful_conversions |-> 0,
                 failed_conversions |-> 0, total_pages_processed |-> 0 ]
    /\ recorded_method = "None"
    /\ extraction_method_used = "None"
    /\ method_idx = 1
    /\ attempts = << >>
    /\ open_sources = { }
    /\ raw_text \in RewriteInputs
    /\ pages_processed = 0
    /\ model_names \in { SubSeq(DefaultModels, 1, n) : n \in 0..MaxModels }
    /\ model_idx = 1
    /\ model_calls = << >>
    /\ ai_processed_text = << >>
    /\ final_text = << >>
    /\ success = FALSE
    /\ result = "none"
    /\ AsmIdle
    /\ ClsIdle
    /\ NormIdle
    /\ GuiIdle

NextRewrite ==
    \/ RewriteNoModels
    \/ ModelFails
    \/ ModelAnswers

SpecRewrite == InitRewrite /\ [][NextRewrite]_vars

\* the window after construction
InitGui ==
    /\ ConvIdle
    /\ GuiIdle
    /\ stats_enabled = FALSE
    /\ quality_enabled = FALSE
    /\ model_names = DefaultModels
    /\ AsmIdle
    /\ ClsIdle
    /\ NormIdle

NextGui ==
    \/ GuiClick
    \/ start_conversion_Busy
    \/ start_conversion_Invalid
    \/ start_conversion
    \/ perform_conversion_Returns
    \/ perform_conversion_Raises
    \/ conversion_success
    \/ conversion_error

\* a worker thread runs until convert_pdf_to_word returns or raises, and the
\* main loop dispatches the callbacks handed to root.after
GuiProgress ==
    \/ perform_conversion_Returns
    \/ perform_conversion_Raises
    \/ conversion_success
    \/ conversion_error

SpecGui == InitGui /\ [][NextGui]_vars /\ WF_vars(GuiProgress)

\* ------------------------------------------------------------------------
\* Properties of extraction and rewriting (specification Spec)
\* ------------------------------------------------------------------------

\* outcomes of the backend calls of this conversion, in call order
AttemptOutcomes == [k \in 1..Len(attempts) |-> attempts[k].outcome]

\* every backend of the list was called and none gave usable text
AllBackendsFailed ==
    /\ Len(attempts) = 3
    /\ \A k \in 1..3 : attempts[k].outcome \in { "raised", "blank" }

\* every model of model_names was called and raised
AllModelsFailed ==
    /\ Len(model_calls) = Len(model_names)
    /\ \A k \in 1..Len(model_calls) : model_calls[k].outcome = "raised"

\* C1: the backends are called in the order pdfplumber, PyMuPDF, PyPDF2, each
\* at most once per request, none after the first that returns non-blank
\* text; the text returned to convert_pdf_to_word is the normalized text of
\* that backend alone and extraction_method_used is its identifier.
C1_ExtractionOrder ==
    /\ Len(attempts) <= 3
    /\ \A k \in 1..Len(attempts) :
          attempts[k].method = << "pdfplumber", "PyMuPDF", "PyPDF2" >>[k]
    /\ \A k \in 1..(Len(attempts) - 1) : attempts[k].outcome # "text"
    /\ (attempts # << >> /\ attempts[Len(attempts)].outcome = "text") =>
          /\ pc # "extract"
          /\ extraction_method_used = attempts[Len(attempts)].method
          /\ (pc = "rewrite" /\ model_calls = << >>) =>
                raw_text = _preprocess_spacing(attempts[Len(attempts)].text)

\* B1 raised, B2 returned blank, B3 returned text, and the rewrite stage began
C1_Witness ==
    /\ AttemptOutcomes = << "raised", "blank", "text" >>
    /\ extraction_method_used = "PyPDF2"
    /\ pc = "rewrite"

\* C2: when every backend raised or returned blank text, the conversion ends
\* with the extraction error and no downstream stage ran: no model was
\* called, no post-pass result exists and no document was written.
C2_TotalFailure ==
    AllBackendsFailed =>
        /\ result = "Exception: All PDF extraction methods failed"
        /\ pc \in { "finally", "idle" }
        /\ model_calls = << >>
        /\ ai_processed_text = << >>
        /\ final_text = << >>
        /\ document = << >>
        /\ ~success

\* a conversion in which backends raised and returned blank has ended
C2_Witness ==
    /\ AttemptOutcomes = << "raised", "blank", "raised" >>
    /\ result = "Exception: All PDF extraction methods failed"
    /\ pc = "idle"

\* C3: a backend that raises or returns blank does not end the extraction:
\* while backends remain, the coordinator stands at the next one with no error
\* surfaced; the extraction error is the result only after all three backends
\* raised or returned blank.
C3_FailureIsLocal ==
    /\ (/\ attempts # << >>
        /\ Len(attempts) < 3
        /\ attempts[Len(attempts)].outcome \in { "raised", "blank" }) =>
          /\ pc = "extract"
          /\ result = "none"
          /\ method_idx = Len(attempts) + 1
    /\ result = "Exception: All PDF extraction methods failed" => AllBackendsFailed

\* the first backend raised, the second returned blank, the third is next
C3_Witness ==
    /\ AttemptOutcomes = << "raised", "blank" >>
    /\ pc = "extract"
    /\ extraction_methods[method_idx] = "PyPDF2"

\* C4: when the rewrite call raised for every model of model_names, the
\* rewrite stage returns its input, the conversion goes on, and the document
\* written is the one assembled from the normalized extracted text, never an
\* empty one.
C4_RewriteDegradation ==
    AllModelsFailed =>
        /\ pc \in { "create", "finally", "idle" }
        /\ ai_processed_text = raw_text
        /\ result = "returned" => document # << >>
        /\ document # << >> =>
              /\ document = AssembleText(_post_process_spacing(raw_text))
              /\ \E k \in 1..Len(document) : document[k].kind # "Blank"

\* two models raised and the conversion still returned a document
C4_Witness ==
    /\ AllModelsFailed
    /\ Len(model_calls) = 2
    /\ result = "returned"
    /\ document # << >>

\* ------------------------------------------------------------------------
\* Properties of the normalizer (specification SpecNormalize)
\* ------------------------------------------------------------------------

\* C5: _preprocess_spacing is idempotent: applying it to its own output
\* changes nothing.
C5_Idempotent == npc = "twice" => ntwice = nonce

\* ------------------------------------------------------------------------
\* Properties of the assembler (specification SpecAssemble)
\* ------------------------------------------------------------------------

IsNotBlank(b) == b.kind # "Blank"
IsNotEmpty(t) == t # << >>

\* the texts of the blocks that are not Blank, in order
BlockTexts(bs) ==
    LET kept == SelectSeq(bs, IsNotBlank)
    IN  [k \in 1..Len(kept) |-> kept[k].text]

\* the trimmed non-blank lines among the first n lines, in order
TrimmedLines(ls, n) ==
    SelectSeq([k \in 1..n |-> Strip(ls[k])], IsNotEmpty)

\* C6 (as amended): the example lines TITLE, blank, Para one., Para two
\* continues., blank, SECTION:, Body. yield Heading(TITLE, 1), Blank,
\* Paragraph(Para one. Para two continues.), Blank, Heading(SECTION:, 1),
\* Paragraph(Body.), in that order.
C6_Example ==
    (apc = "done" /\ processed_text = JoinNl(ExampleLines)) =>
        document = << Heading(Chars("TITLE"), 1),
                      Blank,
                      Paragraph(Chars("Para one. Para two continues.")),
                      Blank,
                      Heading(Chars("SECTION:"), 1),
                      Paragraph(Chars("Body.")) >>

\* C6 as stated: the same, with SECTION: a heading of level 2
C6_ExampleAsStated ==
    (apc = "done" /\ processed_text = JoinNl(ExampleLines)) =>
        document = << Heading(Chars("TITLE"), 1),
                      Blank,
                      Paragraph(Chars("Para one. Para two continues.")),
                      Blank,
                      Heading(Chars("SECTION:"), 2),
                      Paragraph(Chars("Body.")) >>

\* the example was assembled and saved
C6_Witness ==
    /\ apc = "done"
    /\ processed_text = JoinNl(ExampleLines)
    /\ Len(document) = 6

\* C7: the texts of the blocks that are not Blank, read in order, are the
\* trimmed non-blank lines consumed so far, each once and in line order; once
\* saved, the document holds every trimmed non-blank line of the input.
C7_LinesPreserved ==
    /\ apc = "loop" =>
          JoinSp(BlockTexts(blocks)) = JoinSp(TrimmedLines(lines, i - 1))
    /\ apc = "done" =>
          JoinSp(BlockTexts(document)) = JoinSp(TrimmedLines(lines, Len(lines)))

\* a saved document with a blank, a heading and a paragraph of several lines
C7_Witness ==
    /\ apc = "done"
    /\ \E k \in 1..Len(document) : document[k].kind = "Blank"
    /\ \E k \in 1..Len(document) : document[k].kind = "Heading"
    /\ \E k \in 1..Len(document) :
          document[k].kind = "Paragraph" /\ spans[k][2] > spans[k][1]

\* C8: a Paragraph is the join of a contiguous run of lines none of which is
\* blank and none of which is detected as a heading.
C8_ParagraphBoundaries ==
    \A k \in 1..Len(blocks) :
        blocks[k].kind = "Paragraph" =>
            /\ spans[k][1] <= spans[k][2]
            /\ \A n \in spans[k][1]..spans[k][2] :
                  /\ Strip(lines[n]) # << >>
                  /\ ~_is_heading(lines[n])
            /\ blocks[k].text =
                  JoinSp([n \in 1..(spans[k][2] - spans[k][1] + 1) |->
                             Strip(lines[spans[k][1] + n - 1])])

\* a saved document in which a paragraph of two lines is ended by the heading
\* line right after it
C8_Witness ==
    /\ apc = "done"
    /\ \E k \in 1..(Len(blocks) - 1) :
          /\ blocks[k].kind = "Paragraph"
          /\ spans[k][2] > spans[k][1]
          /\ blocks[k + 1].kind = "Heading"

\* ------------------------------------------------------------------------
\* Properties of the classifier (specification SpecClassify)
\* ------------------------------------------------------------------------

\* C9: a line that starts with N.M sub-numbering (N, M in 1..10), such as
\* "1.2 Background", and is neither all-uppercase nor ended by a colon, is
\* classified as level 3 by _detect_heading_level.
C9_SubNumberedIsLevel3 ==
    (/\ cpc = "classified"
     /\ IsSubNumbered(Strip(cline))
     /\ ~IsUpperStr(Strip(cline))
     /\ ~EndsWith(Strip(cline), << ":" >>)) => clevel = 3

\* whether a block sequence holds a Heading
HasHeading(bs) == \E k \in 1..Len(bs) : bs[k].kind = "Heading"

\* C10 (as amended): a line whose trimmed text exceeds 100 characters is never
\* detected as a heading by _is_heading and is never emitted as a Heading,
\* whatever other cues it matches.
C10_LongLineNotHeading ==
    (cpc = "classified" /\ Len(Strip(cline)) > HeadingMaxLen) =>
        /\ ~cheading
        /\ ~HasHeading(cblocks)

\* C10 as stated: such a line is always classified level 0 and never emitted
\* as a Heading.
C10_LongLineLevel0 ==
    (cpc = "classified" /\ Len(Strip(cline)) > HeadingMaxLen) =>
        /\ clevel = 0
        /\ ~HasHeading(cblocks)

\* a line of more than 100 characters with a level-1 marker became a paragraph
C10_Witness ==
    /\ cpc = "classified"
    /\ Len(Strip(cline)) > HeadingMaxLen
    /\ StartsWith(cline, Chars("CHAPTER"))
    /\ cblocks = << Paragraph(Strip(cline)) >>

\* a level-1 rule applies to t: all-uppercase and under 60 characters, or one
\* of the level-1 marker prefixes
MatchesLevel1(t) ==
    \/ (IsUpperStr(t) /\ Len(t) < 60)
    \/ \E p \in { Chars("CHAPTER"), Chars("PART"), Chars("APPENDIX"), Chars("SECTION I") } :
          StartsWith(t, p)

\* a level-2 rule applies to t: a title-case marker prefix, a trailing colon
\* under 50 characters, or N. numbering with N in 1..20
MatchesLevel2(t) ==
    \/ \E p \in { Chars("Chapter"), Chars("Section"), Chars("Part") } : StartsWith(t, p)
    \/ (EndsWith(t, << ":" >>) /\ Len(t) < 50)
    \/ \E n \in 1..20 : StartsWith(t, Append(IntStr(n), "."))

\* C11: the first matching level wins: a line to which a level-1 rule applies
\* is level 1 whatever else it matches ("CHAPTER ONE" is level 1), and a line
\* to which a level-2 rule but no level-1 rule applies is level 2 whatever
\* level-3 rule it also matches.
C11_FirstLevelWins ==
    cpc = "classified" =>
        /\ MatchesLevel1(Strip(cline)) => clevel = 1
        /\ (~MatchesLevel1(Strip(cline)) /\ MatchesLevel2(Strip(cline))) => clevel = 2
        /\ cline = Chars("CHAPTER ONE") => clevel = 1

\* a line with a level-2 rule (N. numbering) and a level-3 rule (N.M
\* sub-numbering) and no level-1 rule was classified as level 2
C11_Witness ==
    /\ cpc = "classified"
    /\ ~MatchesLevel1(Strip(cline))
    /\ MatchesLevel2(Strip(cline))
    /\ IsSubNumbered(Strip(cline))
    /\ clevel = 2

\* ------------------------------------------------------------------------
\* Properties of the normalizer on the examples of test_spacing_fixes
\* (specification SpecNormalize)
\* ------------------------------------------------------------------------

\* str.lower()
LowerStr(s) == [k \in 1..Len(s) |-> LowerCh(s[k])]

\* sub in s
Contains(s, sub) ==
    \E k \in 1..(Len(s) - Len(sub) + 1) : SubSeq(s, k, k + Len(sub) - 1) = sub

\* expected.lower() in fixed.lower()
ContainsIgnoreCase(fixed, expected) == Contains(LowerStr(fixed), LowerStr(expected))

\* C12: _preprocess_spacing("thequickbrownfox") contains "the quick brown
\* fox", compared without regard to letter case.
C12_QuickBrownFox ==
    (npc # "text" /\ ntext = Chars("thequickbrownfox")) =>
        ContainsIgnoreCase(nonce, Chars("the quick brown fox"))

\* C13: _preprocess_spacing("andtheresults") contains "and the results", and
\* every key of common_merges that occurs in the input, in any letter case,
\* is found in its separated form in the output.
C13_MergedWordsSeparated ==
    npc # "text" =>
        /\ ntext = Chars("andtheresults") => Contains(nonce, Chars("and the results"))
        /\ \A k \in 1..Len(common_merges) :
              ContainsIgnoreCase(ntext, common_merges[k][1]) =>
                  Contains(nonce, common_merges[k][2])

\* C14: _preprocess_spacing("word.Another") contains "word. Another", and the
\* output never holds one of . ! ? right before an uppercase letter nor one of
\* , ; : right before a letter.
C14_PunctuationSpaced ==
    npc # "text" =>
        /\ ntext = Chars("word.Another") => Contains(nonce, Chars("word. Another"))
        /\ \A k \in 1..(Len(nonce) - 1) :
              /\ ~(nonce[k] \in { ".", "!", "?" } /\ nonce[k + 1] \in UpperSet)
              /\ ~(nonce[k] \in { ",", ";", ":" } /\ nonce[k + 1] \in AlphaSet)

\* a comma right before a letter in the input, and a space after it in the output
C14_Witness ==
    /\ npc = "once"
    /\ ntext = Chars("However,thecompany")
    /\ Contains(nonce, Chars(", the"))

\* ------------------------------------------------------------------------
\* Further properties of the conversion (specification Spec) and of the
\* assembler (specification SpecAssemble)
\* ------------------------------------------------------------------------

\* C15: when the source path does not exist the conversion fails with the
\* not-found error, which no other failure gives, before any backend is
\* called; no model is called and no document is written.
C15_NotFoundFirst ==
    (requests > 0 /\ ~pdf_exists) =>
        /\ result = "FileNotFoundError"
        /\ pc \in { "finally", "idle" }
        /\ attempts = << >>
        /\ model_calls = << >>
        /\ final_text = << >>
        /\ document = << >>
        /\ ~success

\* a second conversion, of a path that does not exist, has ended
C15_Witness ==
    /\ requests = 2
    /\ ~pdf_exists
    /\ result = "FileNotFoundError"
    /\ pc = "idle"

\* C16: a document is written only by the save that follows the last
\* iteration of the assembler's loop, and it holds the blocks of the whole
\* line sequence; while the assembler runs, and when the save fails, nothing
\* is written.
C16_NoPartialDocument ==
    /\ document # << >> =>
          /\ apc = "done"
          /\ i > Len(lines)
          /\ document = blocks
          /\ \A n \in 1..Len(lines) :
                \E k \in 1..Len(spans) : spans[k][1] <= n /\ n <= spans[k][2]
          /\ document = AssembleText(processed_text)
    /\ apc \in { "begin", "loop", "raised" } => document = << >>

\* blocks were assembled and the save failed: the blocks exist, no document does
C16_Witness ==
    /\ apc = "raised"
    /\ Len(blocks) >= 3
    /\ document = << >>

\* C17: no backend leaves its source open: whenever a backend call has
\* returned or raised, no source handle is open.
C17_SourcesReleased == open_sources = { }

\* how a conversion can end, or "none" while it runs
ConversionResults ==
    { "none", "returned", "FileNotFoundError",
      "Exception: All PDF extraction methods failed",
      "ValueError: No text content found in PDF", "WriterError" }

\* C18: the quality checks and the statistics are advisory: whether or not
\* they are present and whatever issues are reported, a conversion ends in
\* one of the results of the core, a conversion that returned wrote the
\* blocks of the post-processed rewrite text, one that failed wrote nothing,
\* and recording the statistics changes none of this.
C18_AdvisoryOnly ==
    /\ result \in ConversionResults
    /\ success <=> (result = "returned")
    /\ result = "returned" =>
          /\ final_text = _post_process_spacing(ai_processed_text)
          /\ document = AssembleText(final_text)
    /\ result # "returned" => document = << >>
    /\ pc = "idle" => (requests = 0 \/ result # "none")

\* ------------------------------------------------------------------------

\* the claim as stated: a non-blank line is emitted as a Heading exactly when
\* _detect_heading_level gives it a level >= 1, and the heading carries that level
C19_HeadingIffClassified ==
    \A k \in 1..Len(blocks) :
        \A n \in spans[k][1]..spans[k][2] :
            /\ Strip(lines[n]) # << >> =>
                  (blocks[k].kind = "Heading" <=> _detect_heading_level(lines[n]) >= 1)
            /\ blocks[k].kind = "Heading" =>
                  blocks[k].level = _detect_heading_level(lines[n])

\* C19: a non-blank line is emitted as a Heading block exactly when _is_heading
\* accepts it; the heading stands for that one line, carries its trimmed text
\* and the level max(1, _detect_heading_level(line)), so a line of level 0 that
\* _is_heading accepts becomes a Heading of level 1.
C19_HeadingIffIsHeading ==
    \A k \in 1..Len(blocks) :
        \A n \in spans[k][1]..spans[k][2] :
            /\ Strip(lines[n]) # << >> =>
                  (blocks[k].kind = "Heading" <=> _is_heading(lines[n]))
            /\ blocks[k].kind = "Heading" =>
                  /\ spans[k][1] = spans[k][2]
                  /\ blocks[k].text = Strip(lines[n])
                  /\ blocks[k].level = Max(1, _detect_heading_level(lines[n]))

\* a saved document with a Heading of level 1 for a line of level 0 and a
\* Paragraph that holds a line of level 1
C19_Witness ==
    /\ apc = "done"
    /\ \E k \in 1..Len(blocks) :
          /\ blocks[k].kind = "Heading"
          /\ blocks[k].level = 1
          /\ _detect_heading_level(lines[spans[k][1]]) = 0
    /\ \E k \in 1..Len(blocks) :
          /\ blocks[k].kind = "Paragraph"
          /\ _detect_heading_level(lines[spans[k][1]]) >= 1

\* ------------------------------------------------------------------------

\* a text without its spaces
Unspaced(s) == SelectSeq(s, LAMBDA c : c # " ")

\* the claim as stated: the post-processing pass gives what the pre-processing
\* pass gives, for every text
C20_SamePass == npc = "post" => npost = nonce

\* C20: the post-processing pass is a pass of its own: a text without a
\* suspicious pair is returned as it is, runs of spaces included; a text with
\* one comes back with no suspicious pair and no run of spaces; either way only
\* spaces are added or removed, so merged function words and hyphenated line
\* breaks stay as they were.
C20_PostPassOnlySpaces ==
    npc = "post" =>
        /\ IssuesFound(ntext) = 0 => npost = ntext
        /\ IssuesFound(ntext) > 0 =>
              /\ IssuesFound(npost) = 0
              /\ \A k \in 1..(Len(npost) - 1) : ~(npost[k] = " " /\ npost[k + 1] = " ")
        /\ Unspaced(npost) = Unspaced(ntext)

\* a text with a suspicious pair and a merged function word: the post-pass
\* changes it, and not into what the pre-pass gives
C20_Witness ==
    /\ npc = "post"
    /\ IssuesFound(ntext) > 0
    /\ npost # ntext
    /\ npost # nonce

\* ------------------------------------------------------------------------

\* a single word: letters only, with no lowercase letter right before an
\* uppercase one
IsPlainWord(s) ==
    /\ s # << >>
    /\ \A k \in 1..Len(s) : s[k] \in AlphaSet
    /\ \A k \in 1..(Len(s) - 1) : ~(s[k] \in LowerSet /\ s[k + 1] \in UpperSet)

\* C21: a key of common_merges is replaced only where it is a whole token: a
\* single word that is not itself a key, such as "Matthew" (which holds
\* "atthe") or "therefore" (which holds "therefor"), is returned unchanged.
C21_WholeTokenOnly ==
    (/\ npc # "text"
     /\ IsPlainWord(ntext)
     /\ \A k \in 1..Len(common_merges) : LowerStr(ntext) # common_merges[k][1])
        => nonce = ntext

\* ------------------------------------------------------------------------

\* whether s holds two spaces in a row
HasSpaceRun(s) == \E k \in 1..(Len(s) - 1) : s[k] = " " /\ s[k + 1] = " "

\* C22: the output of _preprocess_spacing never holds two spaces in a row, so
\* collapsing runs of spaces once more changes nothing, although the
\* dehyphenation runs after the collapse.
C22_CollapseIsLast ==
    npc # "text" =>
        /\ ~HasSpaceRun(nonce)
        /\ CollapseSpaces(nonce) = nonce

\* a text with a run of spaces and a wrapped word, normalized: the break is
\* rejoined after the collapse
C22_Witness ==
    /\ npc = "once"
    /\ HasSpaceRun(ntext)
    /\ \E k \in 1..Len(ntext) : BreakAt(ntext, k)
    /\ nonce # CollapseSpaces(ntext)

\* ------------------------------------------------------------------------

\* C26: the normalizer only repairs spacing: its output without spaces is the
\* input without spaces and without the hyphenated line breaks between
\* lowercase letters; no letter, digit or punctuation character is added,
\* deleted or changed in case.
C26_OnlySpacing ==
    npc # "text" => Unspaced(nonce) = Unspaced(Dehyphenate(ntext))

\* ------------------------------------------------------------------------
\* Properties of process_with_gemini called on its own (specification
\* SpecRewrite)
\* ------------------------------------------------------------------------

\* C23: the models of model_names are called in list order, each at most
\* once, and none after the first that answers; the text returned is that
\* model's answer, or the input text when every model raised or model_names
\* is empty; no exception reaches the caller.
C23_ModelFallback ==
    /\ Len(model_calls) <= Len(model_names)
    /\ \A k \in 1..Len(model_calls) : model_calls[k].model = model_names[k]
    /\ \A k \in 1..(Len(model_calls) - 1) : model_calls[k].outcome = "raised"
    /\ result = "none"
    /\ pc = "rewrite" =>
          /\ model_idx = Len(model_calls) + 1
          /\ \A k \in 1..Len(model_calls) : model_calls[k].outcome = "raised"
    /\ pc # "rewrite" =>
          /\ pc = "create"
          /\ IF model_calls # << >> /\ model_calls[Len(model_calls)].outcome = "answered"
             THEN ai_processed_text = model_calls[Len(model_calls)].text
             ELSE /\ Len(model_calls) = Len(model_names)
                  /\ ai_processed_text = raw_text

\* the first model raised, the second answered with a text that is not the
\* input, and that text was returned
C23_Witness ==
    /\ pc = "create"
    /\ Len(model_calls) = 2
    /\ model_calls[1].outcome = "raised"
    /\ model_calls[2].outcome = "answered"
    /\ ai_processed_text # raw_text
    /\ ai_processed_text = model_calls[2].text

\* ------------------------------------------------------------------------
\* Properties of successive conversions (specification Spec)
\* ------------------------------------------------------------------------

\* the backend that gave the text of the current conversion, "None" if none did
SucceededBackend ==
    IF attempts # << >> /\ attempts[Len(attempts)].outcome = "text"
    THEN attempts[Len(attempts)].method
    ELSE "None"

\* C24: nothing leaks from one conversion into the next: when a conversion
\* ends, extraction_method_used, and the method handed to record_conversion,
\* is the backend that succeeded in that conversion, and is empty when the
\* conversion failed before any backend succeeded.
C24_NoLeakBetweenRequests ==
    /\ pc = "finally" => extraction_method_used = SucceededBackend
    /\ (pc = "idle" /\ requests > 0 /\ stats_enabled) =>
          recorded_method = SucceededBackend

\* ------------------------------------------------------------------------
\* Progress of the assembler (specification SpecAssemble)
\* ------------------------------------------------------------------------

\* the cursor has moved forward over the lines block by block: the spans of
\* the blocks are not empty, follow one another from the first line on without
\* gap or overlap, and the cursor stands right after the last; a Blank or a
\* Heading covers one line and a Paragraph the lines it joins
CursorAdvanced ==
    /\ \A k \in 1..Len(spans) :
          /\ spans[k][1] <= spans[k][2]
          /\ spans[k][1] = (IF k = 1 THEN 1 ELSE spans[k - 1][2] + 1)
          /\ spans[k][2] <= Len(lines)
          /\ blocks[k].kind \in { "Blank", "Heading" } => spans[k][2] = spans[k][1]
          /\ blocks[k].kind = "Paragraph" =>
                blocks[k].text = JoinSp(ParagraphLines(lines, spans[k][1], spans[k][2] + 1))
    /\ Len(spans) = Len(blocks)
    /\ Len(blocks) <= Len(lines)
    /\ i = (IF spans = << >> THEN 1 ELSE spans[Len(spans)][2] + 1)
    /\ i <= Len(lines) + 1
    /\ apc \in { "done", "raised" } => i = Len(lines) + 1

\* C25: every iteration moves the cursor forward, by one line for a blank
\* line or a heading and by the number of its lines for a paragraph, never
\* back and never over a line twice; the cursor never passes the end of the
\* lines, so the loop runs at most once per line and leaves only at the end of
\* the line sequence, where the document is saved or the save raises.
C25_CursorTerminates ==
    /\ [](apc \in { "loop", "done", "raised" } => CursorAdvanced)
    /\ [][(apc = "loop" /\ apc' = "loop") => (i' > i /\ Len(blocks') = Len(blocks) + 1)]_vars
    /\ [][(apc = "loop" /\ apc' # "loop") => (i = Len(lines) + 1 /\ i' = i)]_vars

\* a saved document of several blocks, one of them a paragraph of two lines
C25_Witness ==
    /\ apc = "done"
    /\ Len(blocks) >= 2
    /\ \E k \in 1..Len(blocks) :
          blocks[k].kind = "Paragraph" /\ spans[k][2] = spans[k][1] + 1

\* ------------------------------------------------------------------------
\* Statistics (specification Spec)
\* ------------------------------------------------------------------------

\* the statistics count the calls that have ended, each once
StatsCountCalls ==
    /\ stats.total_conversions = stats.successful_conversions + stats.failed_conversions
    /\ stats_enabled =>
          stats.total_conversions = (IF pc = "idle" THEN requests ELSE requests - 1)
    /\ ~stats_enabled => stats.total_conversions = 0

\* C27: with statistics enabled every call of convert_pdf_to_word is recorded
\* once, when it ends: as successful if it returned the output path and as
\* failed if it raised; total_conversions is the number of calls that ended and
\* equals successful_conversions + failed_conversions; total_pages_processed
\* grows only when a successful conversion is recorded, by its pages.
C27_OneRecordPerCall ==
    /\ []StatsCountCalls
    /\ [][(pc = "finally" /\ stats_enabled) =>
             /\ stats'.total_conversions = stats.total_conversions + 1
             /\ stats'.successful_conversions = stats.successful_conversions
                    + (IF result = "returned" THEN 1 ELSE 0)
             /\ stats'.failed_conversions = stats.failed_conversions
                    + (IF result = "returned" THEN 0 ELSE 1)
             /\ stats'.total_pages_processed = stats.total_pages_processed
                    + (IF result = "returned" THEN pages_processed ELSE 0)]_vars
    /\ [][pc # "finally" => stats' = stats]_vars

\* one conversion returned and one raised after its text was extracted: both
\* are recorded, the pages of the first only
C27_Witness ==
    /\ pc = "idle"
    /\ stats_enabled
    /\ stats.successful_conversions = 1
    /\ stats.failed_conversions = 1
    /\ result \notin { "returned", "FileNotFoundError" }
    /\ pages_processed > 0

\* ------------------------------------------------------------------------
\* Properties of the window (specification SpecGui)
\* ------------------------------------------------------------------------

\* the callbacks of thread t, waiting or already run
CallbacksOf(t) ==
    { cb \in callbacks : cb.thread = t }
    \cup { handled[k] : k \in { n \in 1..Len(handled) : handled[n].thread = t } }

\* at most one conversion is under way, is_converting says whether one is, and
\* every thread hands over exactly one callback, which runs at most once
OneConversion ==
    /\ Cardinality(RunningThreads) + Cardinality(callbacks) <= 1
    /\ is_converting <=> (RunningThreads # { } \/ callbacks # { })
    /\ convert_button = (IF is_converting THEN "disabled" ELSE "normal")
    /\ \A t \in 1..Len(threads) :
          Cardinality(CallbacksOf(t)) = (IF threads[t] = "running" THEN 0 ELSE 1)
    /\ \A k, n \in 1..Len(handled) : handled[k].thread = handled[n].thread => k = n
    /\ \A cb \in callbacks : \A k \in 1..Len(handled) : handled[k].thread # cb.thread

\* C28: whatever the order of start_conversion events and thread completions,
\* at most one conversion thread runs at a time, start_conversion does nothing
\* while is_converting is true, and every conversion started resets
\* is_converting through exactly one of conversion_success and conversion_error,
\* after which a conversion can be started again.
C28_OneConversionAtATime ==
    /\ []OneConversion
    /\ [][is_converting => Len(threads') = Len(threads)]_vars
    /\ (is_converting ~> ~is_converting)

\* a first conversion ended in conversion_success, a second in conversion_error,
\* a third is running, and one more invocation of start_conversion waits
C28_Witness ==
    /\ Len(handled) = 2
    /\ handled[1].kind = "conversion_success"
    /\ handled[2].kind = "conversion_error"
    /\ RunningThreads = { 3 }
    /\ is_converting
    /\ pending_clicks = 1

=============================================================================
